---- MODULE Spec2Model ----
(***************************************************************************)
(* A model of src/lib/module-info.ts of types-publisher: getModuleInfo,    *)
(* the concurrent reference walk allReferencedFiles, the classification of *)
(* the parsed files into dependencies, declared modules and globals, and   *)
(* the pure helpers properModuleName and rootName, and getTestDependencies. *)
(*                                                                         *)
(* A JavaScript string is a sequence of one-character strings, so that the *)
(* path arithmetic of the code (indexOf, slice, startsWith, normalize,     *)
(* dirname, basename) is computed and not assumed.                         *)
(***************************************************************************)
EXTENDS Integers, Sequences, FiniteSets, TLC

VARIABLES
    packageName,        \* getModuleInfo's packageName
    allEntryFilenames,  \* getModuleInfo's allEntryFilenames
    fs,                 \* the files under `directory`: readable path -> parsed SourceFile
    seenReferences,     \* allReferencedFiles.seenReferences
    all,                \* allReferencedFiles.all: the map's keys in insertion order
    tasks,              \* the calls of recur that went past the seen check, in creation order
    skipped,            \* the calls of recur that returned at the seen check
    rootPromise,        \* the Promise.all over the entry filenames (line 153)
    status,             \* of the getModuleInfo call: init, running, returned, failed
    result,             \* the ModuleInfo returned
    error,              \* the error getModuleInfo rejected with
    errLog,             \* history: every error thrown, in order of occurrence
    readLog,            \* history: every file read issued, in order
    call,               \* the pure-function specification: the call made and its result
    pkgName,            \* getTestDependencies' pkgName
    testFiles,          \* getTestDependencies' testFiles, as a sequence
    knownDependencies,  \* getTestDependencies' dependencies
    testDependencies,   \* getTestDependencies.testDependencies
    testIndex,          \* the position of its loop over testFiles
    testStatus,         \* of the getTestDependencies call: init, reading, returned, failed
    testError           \* the error getTestDependencies rejected with

testVars == <<pkgName, testFiles, knownDependencies, testDependencies, testIndex,
              testStatus, testError>>

vars == <<packageName, allEntryFilenames, fs, seenReferences, all, tasks, skipped,
          rootPromise, status, result, error, errLog, readLog, call, pkgName, testFiles,
          knownDependencies, testDependencies, testIndex, testStatus, testError>>

-----------------------------------------------------------------------------
(* Strings *)

SLASH == "/"
BACKSLASH == "\\"
DOT == "."

StartsWith(s, p) == Len(s) >= Len(p) /\ SubSeq(s, 1, Len(p)) = p

EndsWith(s, p) == Len(s) >= Len(p) /\ SubSeq(s, Len(s) - Len(p) + 1, Len(s)) = p

\* String.prototype.indexOf(c, from): 0-based, -1 when absent
IndexOf(s, c, from) ==
    LET hits == {i \in 0..(Len(s) - 1) : i >= from /\ s[i + 1] = c}
    IN  IF hits = {} THEN -1 ELSE CHOOSE i \in hits : \A j \in hits : i <= j

\* String.prototype.slice(from, to) for 0 <= from <= to <= length
Slice(s, from, to) == SubSeq(s, from + 1, to)

Includes(s, c) == \E i \in 1..Len(s) : s[i] = c

RECURSIVE Split(_)
\* String.prototype.split("/")
Split(s) ==
    LET i == IndexOf(s, SLASH, 0)
    IN  IF i = -1 THEN <<s>> ELSE <<Slice(s, 0, i)>> \o Split(Slice(s, i + 1, Len(s)))

RECURSIVE JoinSegs(_)
\* Array.prototype.join("/")
JoinSegs(segs) ==
    IF segs = <<>> THEN <<>>
    ELSE IF Len(segs) = 1 THEN segs[1]
    ELSE segs[1] \o <<SLASH>> \o JoinSegs(Tail(segs))

DTS == <<".", "d", ".", "t", "s">>
INDEX_D_TS == <<"i", "n", "d", "e", "x">> \o DTS
DOT_SLASH_INDEX_D_TS == <<".", "/">> \o INDEX_D_TS
TSCONFIG == <<"t", "s", "c", "o", "n", "f", "i", "g", ".", "j", "s", "o", "n">>
CUR == <<".">>
PARENT == <<".", ".">>

-----------------------------------------------------------------------------
(* ../util/util and node's path module (posix) *)

joinPaths(a, b) == a \o <<SLASH>> \o b

hasWindowsSlashes(s) == Includes(s, BACKSLASH)

normalizeSlashes(s) == [i \in 1..Len(s) |-> IF s[i] = BACKSLASH THEN SLASH ELSE s[i]]

RECURSIVE NormalizeSegs(_, _, _)
\* node's normalizeString: "" and "." are dropped, ".." removes the segment before it
\* or, above the start of a relative path, is kept
NormalizeSegs(segs, res, allowAboveRoot) ==
    IF segs = <<>> THEN res
    ELSE LET s == Head(segs)
             rest == Tail(segs)
         IN  IF s = <<>> \/ s = CUR THEN NormalizeSegs(rest, res, allowAboveRoot)
             ELSE IF s = PARENT
                  THEN IF res # <<>> /\ res[Len(res)] # PARENT
                       THEN NormalizeSegs(rest, SubSeq(res, 1, Len(res) - 1), allowAboveRoot)
                       ELSE IF allowAboveRoot
                            THEN NormalizeSegs(rest, Append(res, PARENT), allowAboveRoot)
                            ELSE NormalizeSegs(rest, res, allowAboveRoot)
                  ELSE NormalizeSegs(rest, Append(res, s), allowAboveRoot)

\* path.normalize
PathNormalize(p) ==
    IF p = <<>> THEN CUR
    ELSE LET isAbsolute == p[1] = SLASH
             trailingSeparator == p[Len(p)] = SLASH
             body == JoinSegs(NormalizeSegs(Split(p), <<>>, ~isAbsolute))
         IN  IF body = <<>>
             THEN IF isAbsolute THEN <<SLASH>>
                  ELSE IF trailingSeparator THEN <<DOT, SLASH>> ELSE CUR
             ELSE (IF isAbsolute THEN <<SLASH>> ELSE <<>>) \o body
                  \o (IF trailingSeparator THEN <<SLASH>> ELSE <<>>)

\* the index (0-based) of the "/" that ends the directory part: the last "/" that has
\* a character other than "/" after it, looking at positions >= 1; -1 when there is none
DirEnd(p) ==
    LET cand == {i \in 1..(Len(p) - 1) :
                    /\ p[i + 1] = SLASH
                    /\ \E j \in (i + 1)..(Len(p) - 1) : p[j + 1] # SLASH}
    IN  IF cand = {} THEN -1 ELSE CHOOSE i \in cand : \A j \in cand : j <= i

\* path.dirname
PathDirname(p) ==
    IF p = <<>> THEN CUR
    ELSE LET hasRoot == p[1] = SLASH
             end == DirEnd(p)
         IN  IF end = -1 THEN (IF hasRoot THEN <<SLASH>> ELSE CUR)
             ELSE IF hasRoot /\ end = 1 THEN <<SLASH, SLASH>>
             ELSE Slice(p, 0, end)

\* path.basename: the part after the last "/", trailing "/"s ignored
PathBasename(p) ==
    LET nonSlash == {i \in 1..Len(p) : p[i] # SLASH}
    IN  IF nonSlash = {} THEN <<>>
        ELSE LET last == CHOOSE i \in nonSlash : \A j \in nonSlash : j <= i
                 before == {i \in 1..last : p[i] = SLASH}
                 first == IF before = {} THEN 1
                          ELSE 1 + (CHOOSE i \in before : \A j \in before : j <= i)
             IN  SubSeq(p, first, last)

\* readFileAndThrowOnBOM(directory, filename) of ./definition-parser: the file system
\* resolves the joined path; a file that is absent (or starts with a BOM) fails the read
Readable(files, filename) == PathNormalize(filename) \in DOMAIN files
ReadFile(files, filename) == files[PathNormalize(filename)]

-----------------------------------------------------------------------------
(* Errors.  A thrown error is a record; NoError is the absence of one. *)

Err(kind, from, text) == [kind |-> kind, from |-> from, text |-> text]
NoError == Err("none", <<>>, <<>>)

-----------------------------------------------------------------------------
(* The syntax tree the TypeScript parser hands over.  A SourceFile is      *)
(* [referencedFiles, typeReferenceDirectives, statements]; a statement is  *)
(* a record of its SyntaxKind and the fields the code reads:               *)
(*   name, nameKind      the declaration's name and the kind of that node  *)
(*   spec, specKind      moduleSpecifier (import/export declaration) or    *)
(*                       moduleReference (import-equals): its text and the *)
(*                       kind of the node: StringLiteral, Expression (a    *)
(*                       require() of something else), EntityName, none    *)
(*   body, bodyKind      a ModuleDeclaration's body: the statements of a   *)
(*                       ModuleBlock, or the one nested ModuleDeclaration  *)
(*                       of a dotted namespace, or none                    *)
(*   declarations        a VariableStatement's declarations                *)
(*   exported            the statement carries the export modifier         *)

Stmt(kind) ==
    [kind |-> kind, name |-> <<>>, nameKind |-> "none", spec |-> <<>>, specKind |-> "none",
     body |-> <<>>, bodyKind |-> "none", declarations |-> <<>>, exported |-> FALSE]

SourceFile(refs, typeRefs, statements) ==
    [referencedFiles |-> refs, typeReferenceDirectives |-> typeRefs, statements |-> statements]

\* the statements by which the parser marks a file as an external module
IsModuleIndicator(st) ==
    \/ st.exported
    \/ st.kind \in {"ImportDeclaration", "ExportDeclaration", "ExportAssignment"}
    \/ st.kind = "ImportEqualsDeclaration" /\ st.specKind \in {"StringLiteral", "Expression"}

\* ts.isExternalModule
isExternalModule(sourceFile) ==
    \E i \in 1..Len(sourceFile.statements) : IsModuleIndicator(sourceFile.statements[i])

-----------------------------------------------------------------------------
(* Pure helpers *)

\* assert(str.endsWith(ext)); str.slice(0, str.length - ext.length)
withoutExtension(str, ext) ==
    IF EndsWith(str, ext)
    THEN [err |-> NoError, value |-> Slice(str, 0, Len(str) - Len(ext))]
    ELSE [err |-> Err("AssertionError", str, ext), value |-> <<>>]

\* properModuleName without the package's folder in front of the name
properModuleNameBare(folderName, fileName) ==
    LET part == IF PathBasename(fileName) = INDEX_D_TS
                THEN [err |-> NoError, value |-> PathDirname(fileName)]
                ELSE withoutExtension(fileName, DTS)
    IN  IF part.err # NoError THEN part
        ELSE [err |-> NoError, value |-> IF part.value = CUR THEN folderName ELSE part.value]

properModuleName(folderName, fileName) ==
    LET part == IF PathBasename(fileName) = INDEX_D_TS
                THEN [err |-> NoError, value |-> PathDirname(fileName)]
                ELSE withoutExtension(fileName, DTS)
    IN  IF part.err # NoError THEN part
        ELSE [err |-> NoError,
              value |-> IF part.value = CUR THEN folderName
                        ELSE joinPaths(folderName, part.value)]

\* rootName without the second look for scoped names
rootNameUnscoped(importText) ==
    LET slash == IndexOf(importText, SLASH, 0)
    IN  IF slash = -1 THEN importText ELSE Slice(importText, 0, slash)

rootName(importText) ==
    LET slash0 == IndexOf(importText, SLASH, 0)
        slash == IF StartsWith(importText, <<"@">>)
                 THEN IndexOf(importText, SLASH, slash0 + 1)
                 ELSE slash0
    IN  IF slash = -1 THEN importText ELSE Slice(importText, 0, slash)

assertNoWindowsSlashes(pkg, fileName) ==
    IF hasWindowsSlashes(fileName)
    THEN [err |-> Err("WindowsSlashes", pkg, fileName), value |-> <<>>]
    ELSE [err |-> NoError, value |-> fileName]

RECURSIVE imports(_)
\* The generator imports(): the texts it yields, in order, and the error that ends it
\* early (NoError when it runs to its end).
imports(statements) ==
    IF statements = <<>> THEN [texts |-> <<>>, err |-> NoError]
    ELSE LET node == Head(statements)
             here ==
               CASE node.kind \in {"ImportDeclaration", "ExportDeclaration"} ->
                      [texts |-> IF node.specKind = "StringLiteral" THEN <<node.spec>> ELSE <<>>,
                       err |-> NoError]
                 [] node.kind = "ImportEqualsDeclaration" ->
                      IF node.specKind \in {"StringLiteral", "Expression"}
                      THEN \* parseRequire
                           IF node.specKind = "StringLiteral"
                           THEN [texts |-> <<node.spec>>, err |-> NoError]
                           ELSE [texts |-> <<>>, err |-> Err("BadImportEquals", <<>>, node.spec)]
                      ELSE [texts |-> <<>>, err |-> NoError]
                 [] node.kind = "ModuleDeclaration" ->
                      IF node.nameKind = "StringLiteral"
                      THEN IF node.bodyKind = "none"
                           THEN \* destructuring { statements } of undefined
                                [texts |-> <<>>, err |-> Err("TypeError", <<>>, node.name)]
                           ELSE imports(node.body)
                      ELSE [texts |-> <<>>, err |-> NoError]
                 [] OTHER -> [texts |-> <<>>, err |-> NoError]
         IN  IF here.err # NoError THEN here
             ELSE LET rest == imports(Tail(statements))
                  IN  [texts |-> here.texts \o rest.texts, err |-> rest.err]

RECURSIVE isValueNamespace(_), statementDeclaresValue(_), SomeDeclaresValue(_)
\* [err, value]: the boolean returned, or the error thrown
isValueNamespace(ns) ==
    IF ns.bodyKind = "none"
    THEN [err |-> Err("ShorthandAmbientModule", <<>>, ns.name), value |-> FALSE]
    ELSE IF ns.bodyKind = "ModuleDeclaration"
         THEN isValueNamespace(ns.body[1])
         ELSE SomeDeclaresValue(ns.body)

\* statements.some(statementDeclaresValue): stops at the first true, or at a throw
SomeDeclaresValue(statements) ==
    IF statements = <<>> THEN [err |-> NoError, value |-> FALSE]
    ELSE LET r == statementDeclaresValue(Head(statements))
         IN  IF r.err # NoError \/ r.value THEN r
             ELSE SomeDeclaresValue(Tail(statements))

\* statementDeclaresValue taking an interface for a value
statementDeclaresValueOrType(statement) ==
    CASE statement.kind \in {"VariableStatement", "ClassDeclaration", "FunctionDeclaration",
                             "EnumDeclaration", "InterfaceDeclaration"} ->
           [err |-> NoError, value |-> TRUE]
      [] statement.kind = "ModuleDeclaration" -> isValueNamespace(statement)
      [] statement.kind \in {"TypeAliasDeclaration", "ImportEqualsDeclaration"} ->
           [err |-> NoError, value |-> FALSE]
      [] OTHER -> [err |-> Err("UnknownNamespaceStatement", <<>>, statement.name), value |-> FALSE]

statementDeclaresValue(statement) ==
    CASE statement.kind \in {"VariableStatement", "ClassDeclaration",
                             "FunctionDeclaration", "EnumDeclaration"} ->
           [err |-> NoError, value |-> TRUE]
      [] statement.kind = "ModuleDeclaration" -> isValueNamespace(statement)
      [] statement.kind \in {"InterfaceDeclaration", "TypeAliasDeclaration",
                             "ImportEqualsDeclaration"} ->
           [err |-> NoError, value |-> FALSE]
      [] OTHER -> [err |-> Err("UnknownNamespaceStatement", <<>>, statement.name), value |-> FALSE]

\* sourceFileExportsSomething counting string-named module declarations too
sourceFileExportsAnyModule(sourceFile) ==
    \E i \in 1..Len(sourceFile.statements) :
        sourceFile.statements[i].kind \notin {"ImportEqualsDeclaration", "ImportDeclaration"}

\* statements.some(...) of sourceFileExportsSomething
sourceFileExportsSomething(sourceFile) ==
    \E i \in 1..Len(sourceFile.statements) :
        LET statement == sourceFile.statements[i]
        IN  CASE statement.kind \in {"ImportEqualsDeclaration", "ImportDeclaration"} -> FALSE
              [] statement.kind = "ModuleDeclaration" -> statement.nameKind = "Identifier"
              [] OTHER -> TRUE

-----------------------------------------------------------------------------
(* sort of ../util/util: ascending by UTF-16 code unit *)

\* the characters the model's strings are made of, in code-unit order
CharOrder ==
    <<"-", ".", "/", "@", "M", "N", "\\", "a", "b", "c", "d", "e", "f", "g", "i", "j",
      "m", "n", "o", "p", "q", "r", "s", "t", "x", "y">>

CharRank(c) == CHOOSE i \in 1..Len(CharOrder) : CharOrder[i] = c

RECURSIVE StrLess(_, _)
StrLess(a, b) ==
    IF b = <<>> THEN FALSE
    ELSE IF a = <<>> THEN TRUE
    ELSE IF a[1] = b[1] THEN StrLess(Tail(a), Tail(b))
    ELSE CharRank(a[1]) < CharRank(b[1])

RECURSIVE Insert(_, _)
Insert(sorted, x) ==
    IF sorted = <<>> THEN <<x>>
    ELSE IF StrLess(x, Head(sorted)) THEN <<x>> \o sorted
    ELSE <<Head(sorted)>> \o Insert(Tail(sorted), x)

RECURSIVE sort(_)
\* sort(values) for a sequence of strings
sort(values) == IF values = <<>> THEN <<>> ELSE Insert(sort(Tail(values)), Head(values))

RECURSIVE SetToSeq(_)
\* the values of a Set in some order (sort is applied to the result)
SetToSeq(S) ==
    IF S = {} THEN <<>>
    ELSE LET x == CHOOSE x \in S : \A y \in S : y = x \/ StrLess(x, y)
         IN  <<x>> \o SetToSeq(S \ {x})

Range(seq) == {seq[i] : i \in 1..Len(seq)}

-----------------------------------------------------------------------------
(* getModuleInfo, lines 12-76: the classification of the parsed files.     *)
(* The accumulator holds dependencies, declaredModules and globals, and    *)
(* two history fields: declaredBy[i] is the file whose processing pushed   *)
(* declaredModules[i], and globalsBy holds, for every globals.add, the     *)
(* file, the index of the top-level statement and the name added.          *)

EmptyInfo ==
    [dependencies |-> {}, declaredModules |-> <<>>, declaredBy |-> <<>>,
     globals |-> {}, globalsBy |-> {}, err |-> NoError]

\* addDependency without the comparison with packageName
addDependencyUnfiltered(dependencies, dependency, pkg) == dependencies \cup {dependency}

addDependency(dependencies, dependency, pkg) ==
    IF dependency # pkg THEN dependencies \cup {dependency} ELSE dependencies

RECURSIVE AddImportDependencies(_, _, _)
\* lines 24-28 over the texts imports() yielded
AddImportDependencies(dependencies, texts, pkg) ==
    IF texts = <<>> THEN dependencies
    ELSE LET ref == Head(texts)
             next == IF ~StartsWith(ref, <<DOT>>)
                     THEN addDependency(dependencies, rootName(ref), pkg)
                     ELSE dependencies
         IN  AddImportDependencies(next, Tail(texts), pkg)

RECURSIVE AddTypeReferences(_, _, _)
\* lines 30-32
AddTypeReferences(dependencies, typeRefs, pkg) ==
    IF typeRefs = <<>> THEN dependencies
    ELSE AddTypeReferences(addDependency(dependencies, Head(typeRefs), pkg), Tail(typeRefs), pkg)

\* statements.find(ts.isNamespaceExportDeclaration): its index, 0 when there is none
FindNamespaceExport(statements) ==
    LET hits == {i \in 1..Len(statements) : statements[i].kind = "NamespaceExportDeclaration"}
    IN  IF hits = {} THEN 0 ELSE CHOOSE i \in hits : \A j \in hits : i <= j

\* lines 35-41
ExternalModuleFile(acc, fileName, sourceFile, pkg) ==
    IF sourceFileExportsSomething(sourceFile)
    THEN LET name == properModuleName(pkg, fileName)
             ne == FindNamespaceExport(sourceFile.statements)
         IN  IF name.err # NoError THEN [acc EXCEPT !.err = name.err]
             ELSE [acc EXCEPT
                     !.declaredModules = Append(@, name.value),
                     !.declaredBy = Append(@, fileName),
                     !.globals = IF ne = 0 THEN @ ELSE @ \cup {sourceFile.statements[ne].name},
                     !.globalsBy = IF ne = 0 THEN @
                                   ELSE @ \cup {[file |-> fileName, index |-> ne,
                                                 name |-> sourceFile.statements[ne].name]}]
    ELSE acc

\* lines 55-60: the identifier-named declarations of a variable statement
DeclaredIdentifiers(node) ==
    {node.declarations[i].name :
        i \in {j \in 1..Len(node.declarations) : node.declarations[j].nameKind = "Identifier"}}

\* lines 44-71: one top-level statement of a global script
GlobalStatement(acc, fileName, node, i, pkg) ==
    LET add(names) ==
          [acc EXCEPT !.globals = @ \cup names,
                      !.globalsBy = @ \cup {[file |-> fileName, index |-> i, name |-> n] :
                                               n \in names}]
    IN  CASE node.kind = "ModuleDeclaration" ->
               IF node.nameKind = "StringLiteral"
               THEN LET name == assertNoWindowsSlashes(pkg, node.name)
                    IN  IF name.err # NoError THEN [acc EXCEPT !.err = name.err]
                        ELSE [acc EXCEPT !.declaredModules = Append(@, name.value),
                                         !.declaredBy = Append(@, fileName)]
               ELSE LET v == isValueNamespace(node)
                    IN  IF v.err # NoError THEN [acc EXCEPT !.err = v.err]
                        ELSE IF v.value THEN add({node.name}) ELSE acc
          [] node.kind = "VariableStatement" -> add(DeclaredIdentifiers(node))
          [] node.kind \in {"EnumDeclaration", "ClassDeclaration", "FunctionDeclaration"} ->
               IF node.nameKind # "none" THEN add({node.name}) ELSE acc
          [] OTHER -> acc

RECURSIVE GlobalScriptFile(_, _, _, _, _)
\* lines 43-72, from statement i on
GlobalScriptFile(acc, fileName, statements, i, pkg) ==
    IF i > Len(statements) \/ acc.err # NoError THEN acc
    ELSE GlobalScriptFile(GlobalStatement(acc, fileName, statements[i], i, pkg),
                          fileName, statements, i + 1, pkg)

\* lines 24-73: one iteration of the loop over all.values()
ClassifyFile(acc, fileName, sourceFile, pkg) ==
    LET imp == imports(sourceFile.statements)
        deps1 == AddImportDependencies(acc.dependencies, imp.texts, pkg)
        deps2 == AddTypeReferences(deps1, sourceFile.typeReferenceDirectives, pkg)
        acc2 == [acc EXCEPT !.dependencies = deps2]
    IN  IF imp.err # NoError THEN [acc EXCEPT !.dependencies = deps1, !.err = imp.err]
        ELSE IF isExternalModule(sourceFile)
             THEN ExternalModuleFile(acc2, fileName, sourceFile, pkg)
             ELSE GlobalScriptFile(acc2, fileName, sourceFile.statements, 1, pkg)

RECURSIVE ClassifyAll(_, _, _, _)
\* line 23: for (const sourceFile of all.values()), until something throws
ClassifyAll(acc, keys, files, pkg) ==
    IF keys = <<>> \/ acc.err # NoError THEN acc
    ELSE ClassifyAll(ClassifyFile(acc, Head(keys), ReadFile(files, Head(keys)), pkg),
                     Tail(keys), files, pkg)

NoResult ==
    [declFiles |-> <<>>, dependencies |-> {}, declaredModules |-> <<>>, globals |-> <<>>,
     declaredBy |-> <<>>, globalsBy |-> {}]

\* line 76
ModuleInfo(keys, acc) ==
    [declFiles |-> sort(keys), dependencies |-> acc.dependencies,
     declaredModules |-> acc.declaredModules, globals |-> sort(SetToSeq(acc.globals)),
     declaredBy |-> acc.declaredBy, globalsBy |-> acc.globalsBy]

-----------------------------------------------------------------------------
(* allReferencedFiles *)

\* lines 199-209
addReference(fileName, subDirectory, text, exact) ==
    LET checked == assertNoWindowsSlashes(fileName, text)
        full == normalizeSlashes(PathNormalize(joinPaths(subDirectory, text)))
    IN  IF checked.err # NoError THEN [err |-> checked.err, ref |-> [exact |-> exact, text |-> <<>>]]
        ELSE IF StartsWith(full, PARENT)
             THEN [err |-> Err("ParentReference", fileName, text),
                   ref |-> [exact |-> exact, text |-> <<>>]]
             ELSE [err |-> NoError, ref |-> [exact |-> exact, text |-> full]]

RECURSIVE AddReferences(_, _, _, _)
\* the references a sequence of [exact, text] yields, up to the first throw of addReference
AddReferences(fileName, subDirectory, raw, out) ==
    IF raw = <<>> THEN [refs |-> out, err |-> NoError]
    ELSE LET r == addReference(fileName, subDirectory, Head(raw).text, Head(raw).exact)
         IN  IF r.err # NoError THEN [refs |-> out, err |-> r.err]
             ELSE AddReferences(fileName, subDirectory, Tail(raw), Append(out, r.ref))

\* The generator referencedFiles, consumed by Array.from: every <reference path>, then
\* every import whose text starts with "."; [refs, err].
referencedFiles(src, fileName, subDirectory) ==
    LET imp == imports(src.statements)
        IsRelative(t) == StartsWith(t, <<DOT>>)
        raw == [i \in 1..Len(src.referencedFiles) |->
                    [exact |-> TRUE, text |-> src.referencedFiles[i]]]
               \o LET rel == SelectSeq(imp.texts, IsRelative)
                  IN  [i \in 1..Len(rel) |-> [exact |-> FALSE, text |-> rel[i]]]
        added == AddReferences(fileName, subDirectory, raw, <<>>)
    IN  IF added.err # NoError THEN added
        ELSE [refs |-> added.refs, err |-> imp.err]

\* line 138
AlreadySeen(seen, text) == text \in seen

\* line 141 left out
MarkSeenNever(seen, text) == seen

\* line 141
MarkSeen(seen, text) == seen \cup {text}

\* line 147: Map.prototype.set, on the keys in insertion order
MapSet(keys, key) == IF key \in Range(keys) THEN keys ELSE Append(keys, key)

\* lines 143-145 and 159-160: the first read a reference asks for
FirstRead(ref) == IF ref.exact THEN ref.text ELSE ref.text \o DTS

\* line 162 with a trailing slash left in place
IndexFileKeepingSlash(filename) == joinPaths(filename, INDEX_D_TS)

\* line 162
IndexFile(filename) ==
    joinPaths(IF EndsWith(filename, <<SLASH>>) THEN Slice(filename, 0, Len(filename) - 1)
              ELSE filename,
              INDEX_D_TS)

\* line 163
IndexResolvedFilename(index) == IF index = DOT_SLASH_INDEX_D_TS THEN INDEX_D_TS ELSE index

\* lines 137-145: recur up to its first await.  w is the walk's state
\* [seen, all, tasks, skipped, readLog, errs].
RecurStart(w, parent, referencedFrom, ref) ==
    IF AlreadySeen(w.seen, ref.text)
    THEN [w EXCEPT !.skipped = Append(@, [referencedFrom |-> referencedFrom, text |-> ref.text])]
    ELSE [w EXCEPT
            !.seen = MarkSeen(@, ref.text),
            !.tasks = Append(@, [parent |-> parent, referencedFrom |-> referencedFrom,
                                 text |-> ref.text, exact |-> ref.exact,
                                 state |-> IF ref.exact THEN "readExact" ELSE "readDts",
                                 reading |-> FirstRead(ref),
                                 resolvedFilename |-> <<>>, err |-> NoError]),
            !.readLog = Append(@, [text |-> ref.text, file |-> FirstRead(ref)])]

RECURSIVE RecurAll(_, _, _, _)
\* refs.map(ref => recur(referencedFrom, ref)): the calls run one after the other, each
\* up to its first await
RecurAll(w, parent, referencedFrom, refs) ==
    IF refs = <<>> THEN w
    ELSE RecurAll(RecurStart(w, parent, referencedFrom, Head(refs)),
                  parent, referencedFrom, Tail(refs))

Reject(w, i, e) ==
    [w EXCEPT !.tasks[i].state = "rejected", !.tasks[i].err = e, !.errs = Append(@, e)]

\* lines 146-150: recur after its read, with the file parsed
ContinueFile(w, i, resolvedFilename, content) ==
    LET r == referencedFiles(content, resolvedFilename, PathDirname(resolvedFilename))
        w1 == [w EXCEPT !.all = MapSet(@, resolvedFilename),
                        !.tasks[i].resolvedFilename = resolvedFilename]
    IN  IF r.err # NoError THEN Reject(w1, i, r.err)
        ELSE RecurAll([w1 EXCEPT !.tasks[i].state = "join"], i, resolvedFilename, r.refs)

\* lines 143-145, 157-175: what recur does when the read of task i completes
AfterRead(w, i, files) ==
    LET t == w.tasks[i]
        ok == Readable(files, t.reading)
    IN  CASE t.state = "readExact" ->
               IF ok THEN ContinueFile(w, i, t.text, ReadFile(files, t.reading))
               ELSE Reject(w, i, Err("ReadError", t.referencedFrom, t.text))
          [] t.state = "readDts" ->
               IF ok THEN ContinueFile(w, i, t.reading, ReadFile(files, t.reading))
               ELSE [w EXCEPT !.tasks[i].state = "readIndex",
                              !.tasks[i].reading = IndexFile(t.text),
                              !.readLog = Append(@, [text |-> t.text, file |-> IndexFile(t.text)])]
          [] t.state = "readIndex" ->
               IF ok THEN ContinueFile(w, i, IndexResolvedFilename(t.reading),
                                       ReadFile(files, t.reading))
               ELSE Reject(w, i, Err("ReadError", t.referencedFrom, t.text))

\* a Promise.all that waits for every promise and overlooks the rejections
PromiseAllSettled(states) ==
    IF states \subseteq {"resolved", "rejected"} THEN "resolved" ELSE "pending"

\* a Promise.all that rejects only once every promise has settled
PromiseAllWaiting(states) ==
    IF ~(states \subseteq {"resolved", "rejected"}) THEN "pending"
    ELSE IF "rejected" \in states THEN "rejected"
    ELSE "resolved"

\* Promise.all over promises in the given states
PromiseAll(states) ==
    IF "rejected" \in states THEN "rejected"
    ELSE IF states \subseteq {"resolved"} THEN "resolved"
    ELSE "pending"

\* line 150 without the await: a call of recur waits for none of the calls it makes
ChildrenNotAwaited(ts, parent) ==
    IF parent = 0 THEN {j \in 1..Len(ts) : ts[j].parent = parent} ELSE {}

Children(ts, parent) == {j \in 1..Len(ts) : ts[j].parent = parent}

\* the error Promise.all rejects with: that of the child that rejected
RejectionOf(ts, parent) ==
    LET rej == {j \in Children(ts, parent) : ts[j].state = "rejected"}
    IN  IF rej = {} THEN NoError
        ELSE ts[CHOOSE j \in rej : \A k \in rej : j <= k].err

RECURSIVE Settle(_, _)
\* line 150: the awaits on Promise.all that are settled by now settle their recur calls,
\* children before parents (a child is created after its parent)
Settle(ts, i) ==
    IF i = 0 THEN ts
    ELSE LET p == PromiseAll({ts[j].state : j \in Children(ts, i)})
             ts1 == IF ts[i].state = "join" /\ p = "resolved"
                    THEN [ts EXCEPT ![i].state = "resolved"]
                    ELSE IF ts[i].state = "join" /\ p = "rejected"
                    THEN [ts EXCEPT ![i].state = "rejected", ![i].err = RejectionOf(ts, i)]
                    ELSE ts
         IN  Settle(ts1, i - 1)

-----------------------------------------------------------------------------
(* The inputs: bounds, names, statements, packages *)

MaxEdges == 3        \* references (path references and relative imports) in a package
MaxEntries == 2      \* entry filenames of a call
MaxStatements == 2   \* top-level statements of the classified file
MaxBody == 2         \* statements in the block of the classified namespace
MaxTasks == 12       \* calls of recur that reach a read
MaxDepth == 2        \* directories in a file name given to properModuleName

RECURSIVE SubsetsUpTo(_, _)
SubsetsUpTo(S, k) ==
    IF k = 0 THEN {{}}
    ELSE LET prev == SubsetsUpTo(S, k - 1)
         IN  prev \cup {e \cup {x} : e \in prev, x \in S}

RECURSIVE SeqsUpTo(_, _)
SeqsUpTo(S, n) ==
    IF n = 0 THEN {<<>>}
    ELSE LET prev == SeqsUpTo(S, n - 1)
         IN  prev \cup {Append(q, x) : q \in prev, x \in S}

P == <<"p">>
A_DTS == <<"a">> \o DTS
B_DTS == <<"b">> \o DTS
A_INDEX == <<"a", "/">> \o INDEX_D_TS
B_PLAIN == <<"b">>
S_INDEX == <<"s", "/">> \o INDEX_D_TS
X_OUTSIDE == <<".", ".", "/", "x">> \o DTS

ImportDeclaration(text) ==
    [Stmt("ImportDeclaration") EXCEPT !.spec = text, !.specKind = "StringLiteral"]
ExportFrom(text) ==
    [Stmt("ExportDeclaration") EXCEPT !.spec = text, !.specKind = "StringLiteral"]
ExportNames == Stmt("ExportDeclaration")
ImportRequire(text) ==
    [Stmt("ImportEqualsDeclaration") EXCEPT !.spec = text, !.specKind = "StringLiteral"]
ImportRequireBad ==
    [Stmt("ImportEqualsDeclaration") EXCEPT !.spec = <<"y">>, !.specKind = "Expression"]
ImportAlias ==
    [Stmt("ImportEqualsDeclaration") EXCEPT !.spec = <<"N", ".", "x">>, !.specKind = "EntityName"]
AmbientModule(name, body) ==
    [Stmt("ModuleDeclaration") EXCEPT !.name = name, !.nameKind = "StringLiteral",
                                      !.body = body, !.bodyKind = "ModuleBlock"]
ShorthandModule(name) ==
    [Stmt("ModuleDeclaration") EXCEPT !.name = name, !.nameKind = "StringLiteral"]
Namespace(name, body) ==
    [Stmt("ModuleDeclaration") EXCEPT !.name = name, !.nameKind = "Identifier",
                                      !.body = body, !.bodyKind = "ModuleBlock"]
DottedNamespace(name, inner) ==
    [Stmt("ModuleDeclaration") EXCEPT !.name = name, !.nameKind = "Identifier",
                                      !.body = <<inner>>, !.bodyKind = "ModuleDeclaration"]
BodilessNamespace(name) ==
    [Stmt("ModuleDeclaration") EXCEPT !.name = name, !.nameKind = "Identifier"]
Named(kind, name) == [Stmt(kind) EXCEPT !.name = name, !.nameKind = "Identifier"]
Exported(st) == [st EXCEPT !.exported = TRUE]
VariableStatement(names) ==
    [Stmt("VariableStatement") EXCEPT
        !.declarations = [i \in 1..Len(names) |-> [name |-> names[i], nameKind |-> "Identifier"]]]
DestructuringVariable ==
    [Stmt("VariableStatement") EXCEPT
        !.declarations = <<[name |-> <<>>, nameKind |-> "ObjectBindingPattern"]>>]

(* The packages of the reference walk.  a.d.ts, b.d.ts and s/index.d.ts hold at   *)
(* most MaxEdges references between them, each one of GraphItems (GraphSlots).    *)
(* The                                                                            *)
(* other files hold none: b (a file without extension), a/index.d.ts (so that     *)
(* "./a" has both a.d.ts and a/index.d.ts to resolve to, and "./s" only           *)
(* s/index.d.ts) and ../x.d.ts, which lies outside the package.  No file m.d.ts   *)
(* or m/index.d.ts exists.                                                        *)

GraphItems ==
    << [exact |-> TRUE,  text |-> B_PLAIN],
       [exact |-> TRUE,  text |-> X_OUTSIDE],
       [exact |-> FALSE, text |-> <<".", "/", "a">>],
       [exact |-> FALSE, text |-> <<".", "/", "b">>],
       [exact |-> FALSE, text |-> <<".", "/", "s">>],
       [exact |-> FALSE, text |-> <<".", "/", "m">>],
       [exact |-> FALSE, text |-> <<".", ".", "/", "a">>] >>

GraphEdgeFiles == {A_DTS, B_DTS, S_INDEX}
GraphLeafFiles == {B_PLAIN, A_INDEX, X_OUTSIDE}
GraphEntryOrder == <<A_DTS, B_DTS, X_OUTSIDE>>

\* s/index.d.ts holds only an import of "../a" (which is a.d.ts) and a path reference
\* to "b" (s/b, which does not exist)
GraphSubdirectoryItems ==
    { [exact |-> FALSE, text |-> <<".", ".", "/", "a">>], [exact |-> TRUE, text |-> B_PLAIN] }

GraphSlots ==
    {<<f, i>> \in GraphEdgeFiles \X (1..Len(GraphItems)) :
        f = S_INDEX => GraphItems[i] \in GraphSubdirectoryItems}

\* the file f of a package with the references E
GraphSource(E, f) ==
    LET mine == [i \in 1..Len(GraphItems) |-> <<f, i>> \in E]
        IsPath(i) == mine[i] /\ GraphItems[i].exact
        IsImport(i) == mine[i] /\ ~GraphItems[i].exact
        idx == [i \in 1..Len(GraphItems) |-> i]
        paths == SelectSeq(idx, IsPath)
        imps == SelectSeq(idx, IsImport)
    IN  SourceFile([k \in 1..Len(paths) |-> GraphItems[paths[k]].text],
                   <<>>,
                   [k \in 1..Len(imps) |-> ImportDeclaration(GraphItems[imps[k]].text)])

GraphPackage(E) ==
    [f \in GraphEdgeFiles \cup GraphLeafFiles |->
        IF f \in GraphEdgeFiles THEN GraphSource(E, f) ELSE SourceFile(<<>>, <<>>, <<>>)]

\* the entry filenames: the names of a subset of GraphEntryOrder, in that order
GraphEntries(chosen) ==
    LET In(f) == f \in chosen IN SelectSeq(GraphEntryOrder, In)

(* The packages of the classification: the entry file a.d.ts holds at most        *)
(* MaxStatements of TopStatements and one of TypeReferenceChoices; b.d.ts, which  *)
(* "./b" resolves to, exports an interface.                                       *)

Q == <<"q">>
R == <<"r">>
T == <<"t">>

TopStatements ==
    { ImportDeclaration(Q), ImportDeclaration(P), ImportDeclaration(<<"p", "/", "q">>),
      ImportDeclaration(<<"@", "s", "/", "q", "/", "x">>),
      ImportDeclaration(<<".", "/", "b">>), ImportDeclaration(<<".", "\\", "b">>),
      ExportFrom(R), ExportNames, ImportRequire(R), ImportRequireBad, ImportAlias,
      AmbientModule(<<"m">>, <<ImportDeclaration(T)>>), ShorthandModule(<<"m">>),
      AmbientModule(<<"m", "\\", "n">>, <<>>),
      Namespace(<<"N">>, <<Named("ClassDeclaration", <<"c">>)>>),
      Namespace(<<"M">>, <<Named("InterfaceDeclaration", <<"i">>)>>),
      Exported(Named("InterfaceDeclaration", <<"i">>)), Named("InterfaceDeclaration", <<"i">>),
      Named("TypeAliasDeclaration", <<"t">>),
      VariableStatement(<<<<"x">>, <<"y">>>>), DestructuringVariable,
      Named("ClassDeclaration", <<"c">>), Named("FunctionDeclaration", <<"f">>),
      Named("EnumDeclaration", <<"e">>), Stmt("ClassDeclaration"),
      Stmt("ExportAssignment"), Named("NamespaceExportDeclaration", <<"N">>) }

TypeReferenceChoices == {<<>>, <<P>>, <<Q>>, <<Q, P>>}

ClassifyPackage(typeRefs, statements) ==
    [f \in {A_DTS, B_DTS} |->
        IF f = A_DTS THEN SourceFile(<<>>, typeRefs, statements)
        ELSE SourceFile(<<>>, <<>>, <<Exported(Named("InterfaceDeclaration", <<"i">>))>>)]

(* The namespaces of the classification: the global script a.d.ts holds one       *)
(* identifier-named namespace N, plain or dotted (N.M) or without a body, whose   *)
(* block holds at most MaxBody statements, each a declaration of one of the eight *)
(* kinds below or a namespace M of at most one such declaration.                  *)

LeafStatements ==
    { VariableStatement(<<<<"x">>>>), Named("ClassDeclaration", <<"c">>),
      Named("FunctionDeclaration", <<"f">>), Named("EnumDeclaration", <<"e">>),
      Named("InterfaceDeclaration", <<"i">>), Named("TypeAliasDeclaration", <<"t">>),
      ImportAlias, Stmt("ExportAssignment") }

InnerNamespaces ==
    {Namespace(<<"M">>, <<l>>) : l \in LeafStatements}
    \cup {Namespace(<<"M">>, <<>>), BodilessNamespace(<<"M">>)}

NamespaceBlocks == SeqsUpTo(LeafStatements \cup InnerNamespaces, MaxBody)

TopNamespaces ==
    {Namespace(<<"N">>, b) : b \in NamespaceBlocks}
    \cup {DottedNamespace(<<"N">>, Namespace(<<"M">>, b)) : b \in NamespaceBlocks}
    \cup {BodilessNamespace(<<"N">>)}

\* getTestDependencies not yet called, with its arguments
TestIdle(pkg, files, dependencies) ==
    /\ pkgName = pkg
    /\ testFiles = files
    /\ knownDependencies = dependencies
    /\ testDependencies = {}
    /\ testIndex = 0
    /\ testStatus = "init"
    /\ testError = NoError

(* The UMD modules of the classification: a.d.ts begins with `export { ... }` and   *)
(* goes on with at most MaxStatements of UmdStatements.                            *)

UmdStatements ==
    { Named("NamespaceExportDeclaration", <<"N">>), Named("NamespaceExportDeclaration", <<"M">>),
      Named("InterfaceDeclaration", <<"i">>), ImportDeclaration(Q) }

(* A package with a file whose name holds a backslash: s\a.d.ts, a global script or *)
(* a module that exports an interface, given as an entry filename.                 *)

S_BACKSLASH_A == <<"s", BACKSLASH, "a">> \o DTS

BackslashEntries == {<<S_BACKSLASH_A>>, <<A_DTS, S_BACKSLASH_A>>}

BackslashSources ==
    { SourceFile(<<>>, <<>>, <<>>),
      SourceFile(<<>>, <<>>, <<Exported(Named("InterfaceDeclaration", <<"i">>))>>) }

BackslashPackage(src) ==
    [f \in {A_DTS, S_BACKSLASH_A} |->
        IF f = A_DTS THEN SourceFile(<<>>, <<>>, <<>>) ELSE src]

(* The packages of module resolution: the entry file a.d.ts imports at most         *)
(* MaxImports of ResolveImports, and any of ResolveFiles may exist beside it.       *)

MaxImports == 2      \* imports of the entry file a.d.ts

S_DTS == <<"s">> \o DTS

ResolveImports ==
    { <<".">>, <<".", "/">>, <<".", "/", "s">>, <<".", "/", "s", "/">>,
      <<".", "/", "a">>, <<".", "/", "m">> }

ResolveFiles == {INDEX_D_TS, S_DTS, S_INDEX, A_INDEX}

ResolvePackage(texts, present) ==
    [f \in {A_DTS} \cup present |->
        IF f = A_DTS
        THEN SourceFile(<<>>, <<>>, [k \in 1..Len(texts) |-> ImportDeclaration(texts[k])])
        ELSE SourceFile(<<>>, <<>>, <<>>)]

Idle == [fn |-> "none", args |-> <<>>, value |-> <<>>, err |-> NoError]

InitCall(pkg, entries, files) ==
    /\ packageName = pkg
    /\ allEntryFilenames = entries
    /\ fs = files
    /\ seenReferences = {}
    /\ all = <<>>
    /\ tasks = <<>>
    /\ skipped = <<>>
    /\ rootPromise = "pending"
    /\ status = "init"
    /\ result = NoResult
    /\ error = NoError
    /\ errLog = <<>>
    /\ readLog = <<>>
    /\ call = Idle
    /\ TestIdle(pkg, <<>>, {})

InitGraph ==
    \E E \in SubsetsUpTo(GraphSlots, MaxEdges),
       chosen \in SubsetsUpTo(Range(GraphEntryOrder), MaxEntries) :
        InitCall(P, GraphEntries(chosen), GraphPackage(E))

InitClassify ==
    \/ \E typeRefs \in TypeReferenceChoices, statements \in SeqsUpTo(TopStatements, MaxStatements) :
          InitCall(P, <<A_DTS>>, ClassifyPackage(typeRefs, statements))
    \/ \E ns \in TopNamespaces :
          InitCall(P, <<A_DTS>>, ClassifyPackage(<<>>, <<ns>>))
    \/ \E entries \in BackslashEntries, src \in BackslashSources :
          InitCall(P, entries, BackslashPackage(src))
    \/ \E statements \in SeqsUpTo(UmdStatements, MaxStatements) :
          InitCall(P, <<A_DTS>>, ClassifyPackage(<<>>, <<ExportNames>> \o statements))

InitResolve ==
    \E texts \in SeqsUpTo(ResolveImports, MaxImports), present \in SUBSET ResolveFiles :
        InitCall(P, <<A_DTS>>, ResolvePackage(texts, present))

-----------------------------------------------------------------------------
(* getModuleInfo as a state machine.  A step is one turn of the event loop: *)
(* the call itself up to its first await, or the completion of one file    *)
(* read together with everything that runs before the next read can        *)
(* complete (the continuation of recur, the recur calls it makes up to     *)
(* their reads, and every promise reaction that is due).                   *)

Walk == [seen |-> seenReferences, all |-> all, tasks |-> tasks, skipped |-> skipped,
         readLog |-> readLog, errs |-> <<>>]

\* lines 10-76 once the promise of allReferencedFiles has settled as `root`
Finish(w, ts, root) ==
    IF root = "resolved"
    THEN LET acc == ClassifyAll(EmptyInfo, w.all, fs, packageName)
         IN  IF acc.err = NoError
             THEN /\ status' = "returned"
                  /\ result' = ModuleInfo(w.all, acc)
                  /\ error' = NoError
                  /\ errLog' = errLog \o w.errs
             ELSE /\ status' = "failed"
                  /\ result' = NoResult
                  /\ error' = acc.err
                  /\ errLog' = errLog \o w.errs \o <<acc.err>>
    ELSE /\ status' = "failed"
         /\ result' = NoResult
         /\ error' = RejectionOf(ts, 0)
         /\ errLog' = errLog \o w.errs

\* the promise reactions that are due after the walk's state became w
Commit(w) ==
    LET ts == Settle(w.tasks, Len(w.tasks))
        root == IF rootPromise # "pending" THEN rootPromise
                ELSE PromiseAll({ts[j].state : j \in Children(ts, 0)})
    IN  /\ seenReferences' = w.seen
        /\ all' = w.all
        /\ tasks' = ts
        /\ skipped' = w.skipped
        /\ readLog' = w.readLog
        /\ rootPromise' = root
        /\ IF rootPromise = "pending" /\ root # "pending"
           THEN Finish(w, ts, root)
           ELSE /\ status' = IF status = "init" THEN "running" ELSE status
                /\ errLog' = errLog \o w.errs
                /\ UNCHANGED <<result, error>>

\* lines 9-10 and 133-153: the call, up to the await on Promise.all
GetModuleInfo ==
    /\ status = "init"
    /\ Commit(RecurAll(Walk, 0, TSCONFIG,
                       [i \in 1..Len(allEntryFilenames) |->
                           [exact |-> TRUE, text |-> allEntryFilenames[i]]]))
    /\ UNCHANGED <<packageName, allEntryFilenames, fs, call>>
    /\ UNCHANGED testVars

Reading(t) == t.state \in {"readExact", "readDts", "readIndex"}

\* the read that task i awaits completes
ReadCompletes(i) ==
    /\ status # "init"
    /\ Reading(tasks[i])
    /\ Len(tasks) <= MaxTasks
    /\ Commit(AfterRead(Walk, i, fs))
    /\ UNCHANGED <<packageName, allEntryFilenames, fs, call>>
    /\ UNCHANGED testVars

Next == GetModuleInfo \/ \E i \in 1..Len(tasks) : ReadCompletes(i)

\* the reference walk over the graph packages
Spec == InitGraph /\ [][Next]_vars

\* the classification of one entry file
SpecClassify == InitClassify /\ [][Next]_vars

\* the resolution of the imports of one entry file
SpecResolve == InitResolve /\ [][Next]_vars

-----------------------------------------------------------------------------
(* The pure helpers, called on their own *)

FOO == <<"f", "o", "o">>
BAR == <<"b", "a", "r">>

\* file names of at most MaxDepth directories: with a declaration extension or without
PureDirectories == SeqsUpTo({FOO, BAR}, MaxDepth)
PureBaseNames == {INDEX_D_TS, BAR \o DTS, <<"i", "n", "d", "e", "x", ".", "t", "s">>, BAR}
PureFileNames == {JoinSegs(Append(d, b)) : d \in PureDirectories, b \in PureBaseNames}
PureFolderNames == {FOO, P}

\* import targets of at most MaxDepth + 1 segments (an empty one included), scoped or not
PureImportTexts ==
    LET paths == {JoinSegs(q) : q \in SeqsUpTo({FOO, BAR, <<>>}, MaxDepth + 1) \ {<<>>}}
    IN  paths \cup {<<"@">> \o t : t \in paths}

InitPure == InitCall(P, <<>>, <<>>)

CallProperModuleName ==
    /\ call = Idle
    /\ \E folderName \in PureFolderNames, fileName \in PureFileNames :
          LET r == properModuleName(folderName, fileName)
          IN  call' = [fn |-> "properModuleName", args |-> <<folderName, fileName>>,
                       value |-> r.value, err |-> r.err]
    /\ UNCHANGED <<packageName, allEntryFilenames, fs, seenReferences, all, tasks, skipped,
                   rootPromise, status, result, error, errLog, readLog>>
    /\ UNCHANGED testVars

CallRootName ==
    /\ call = Idle
    /\ \E importText \in PureImportTexts :
          call' = [fn |-> "rootName", args |-> <<importText>>,
                   value |-> rootName(importText), err |-> NoError]
    /\ UNCHANGED <<packageName, allEntryFilenames, fs, seenReferences, all, tasks, skipped,
                   rootPromise, status, result, error, errLog, readLog>>
    /\ UNCHANGED testVars

NextPure == CallProperModuleName \/ CallRootName

SpecPure == InitPure /\ [][NextPure]_vars

-----------------------------------------------------------------------------
(* getTestDependencies, lines 291-328.  The test files are read one after  *)
(* the other; a step is the call up to its first await, or the completion  *)
(* of the awaited read with the processing of that file up to the next     *)
(* read.                                                                   *)

RECURSIVE TestTypeReferences(_, _, _, _, _)
\* lines 309-318: [deps, err]
TestTypeReferences(deps, fileName, typeRefs, pkg, dependencies) ==
    IF typeRefs = <<>> THEN [deps |-> deps, err |-> NoError]
    ELSE LET referencedPackage == Head(typeRefs)
         IN  IF referencedPackage \in dependencies
             THEN [deps |-> deps, err |-> Err("UnnecessaryReference", fileName, referencedPackage)]
             ELSE IF referencedPackage = pkg
             THEN [deps |-> deps, err |-> Err("SelfReference", fileName, referencedPackage)]
             ELSE TestTypeReferences(deps \cup {referencedPackage}, fileName, Tail(typeRefs),
                                     pkg, dependencies)

\* line 321 with every import added whatever it is
TestImportIsNewAlways(imported, pkg, dependencies) == TRUE

\* line 321
TestImportIsNew(imported, pkg, dependencies) ==
    ~StartsWith(imported, <<DOT>>) /\ imported \notin dependencies /\ imported # pkg

RECURSIVE TestImports(_, _, _, _)
\* lines 320-324 over the texts imports() yielded
TestImports(deps, texts, pkg, dependencies) ==
    IF texts = <<>> THEN deps
    ELSE TestImports(IF TestImportIsNew(Head(texts), pkg, dependencies)
                     THEN deps \cup {Head(texts)} ELSE deps,
                     Tail(texts), pkg, dependencies)

\* the check of lines 305-307 left out
TestPathReferencesAllowed(fileName, sourceFile) == NoError

\* lines 305-307
TestPathReferences(fileName, sourceFile) ==
    IF sourceFile.referencedFiles # <<>>
    THEN Err("PathReferenceInTest", fileName, Head(sourceFile.referencedFiles))
    ELSE NoError

\* lines 301-324: one test file, parsed; [deps, err]
TestFile(deps, fileName, sourceFile, pkg, dependencies) ==
    LET pathErr == TestPathReferences(fileName, sourceFile)
        tr == TestTypeReferences(deps, fileName, sourceFile.typeReferenceDirectives,
                                 pkg, dependencies)
        imp == imports(sourceFile.statements)
    IN  IF pathErr # NoError THEN [deps |-> deps, err |-> pathErr]
        ELSE IF tr.err # NoError THEN tr
        ELSE [deps |-> TestImports(tr.deps, imp.texts, pkg, dependencies), err |-> imp.err]

MaxTestFiles == 2        \* test files of a call
MaxTestStatements == 2   \* statements of the first test file

P_TESTS == <<"p", "-", "t", "e", "s", "t", "s", ".", "t", "s">>
X_TESTS == <<"x", "-", "t", "e", "s", "t", "s", ".", "t", "s">>
M_TESTS == <<"m", "-", "t", "e", "s", "t", "s", ".", "t", "s">>
FOO_DTS == FOO \o DTS
Q_X == <<"q", "/", "x">>

\* sequences of at most n distinct elements of S
RECURSIVE DistinctSeqsUpTo(_, _)
DistinctSeqsUpTo(S, n) ==
    IF n = 0 THEN {<<>>}
    ELSE LET prev == DistinctSeqsUpTo(S, n - 1)
         IN  prev \cup UNION {{Append(q, x) : x \in S \ Range(q)} : q \in prev}

TestStatements ==
    { ImportDeclaration(Q), ImportDeclaration(R), ImportDeclaration(P),
      ImportDeclaration(<<".", "/", "b">>), ImportRequireBad, ShorthandModule(<<"m">>),
      AmbientModule(<<"m">>, <<ImportDeclaration(T)>>) }

\* p-tests.ts: with or without a path reference, one of four type-reference lists and
\* at most MaxTestStatements of TestStatements
TestSources ==
    {SourceFile(refs, typeRefs, statements) :
        refs \in {<<>>, <<FOO_DTS>>},
        typeRefs \in {<<>>, <<Q>>, <<P>>, <<R>>},
        statements \in SeqsUpTo(TestStatements, MaxTestStatements)}

\* x-tests.ts: one of four files
OtherTestSources ==
    { SourceFile(<<>>, <<>>, <<ImportDeclaration(Q_X), ImportRequire(T)>>),
      SourceFile(<<>>, <<T, Q>>, <<>>),
      SourceFile(<<FOO_DTS>>, <<T>>, <<ImportRequireBad>>),
      SourceFile(<<>>, <<>>, <<Named("ClassDeclaration", <<"c">>)>>) }

\* the directory holds p-tests.ts and x-tests.ts; m-tests.ts does not exist
TestDirectory(first, other) ==
    [f \in {P_TESTS, X_TESTS} |-> IF f = P_TESTS THEN first ELSE other]

InitTest ==
    \E first \in TestSources, other \in OtherTestSources,
       files \in DistinctSeqsUpTo({P_TESTS, X_TESTS, M_TESTS}, MaxTestFiles),
       dependencies \in {{}, {Q}} :
        /\ packageName = P
        /\ allEntryFilenames = <<>>
        /\ fs = TestDirectory(first, other)
        /\ seenReferences = {}
        /\ all = <<>>
        /\ tasks = <<>>
        /\ skipped = <<>>
        /\ rootPromise = "pending"
        /\ status = "init"
        /\ result = NoResult
        /\ error = NoError
        /\ errLog = <<>>
        /\ readLog = <<>>
        /\ call = Idle
        /\ TestIdle(P, files, dependencies)

\* lines 291-300: the call, up to the first read (or to the return, without test files)
GetTestDependencies ==
    /\ testStatus = "init"
    /\ testStatus' = IF testFiles = <<>> THEN "returned" ELSE "reading"
    /\ testIndex' = IF testFiles = <<>> THEN 0 ELSE 1
    /\ testDependencies' = {}
    /\ UNCHANGED <<pkgName, testFiles, knownDependencies, testError>>
    /\ UNCHANGED <<packageName, allEntryFilenames, fs, seenReferences, all, tasks, skipped,
                   rootPromise, status, result, error, errLog, readLog, call>>

\* lines 300-327: the awaited read completes
TestReadCompletes ==
    /\ testStatus = "reading"
    /\ LET filename == testFiles[testIndex]
           r == IF Readable(fs, filename)
                THEN TestFile(testDependencies, filename, ReadFile(fs, filename),
                              pkgName, knownDependencies)
                ELSE [deps |-> testDependencies, err |-> Err("ReadError", filename, filename)]
       IN  /\ testDependencies' = r.deps
           /\ testError' = r.err
           /\ testStatus' = IF r.err # NoError THEN "failed"
                            ELSE IF testIndex = Len(testFiles) THEN "returned"
                            ELSE "reading"
           /\ testIndex' = IF r.err = NoError /\ testIndex < Len(testFiles)
                           THEN testIndex + 1 ELSE testIndex
    /\ UNCHANGED <<pkgName, testFiles, knownDependencies>>
    /\ UNCHANGED <<packageName, allEntryFilenames, fs, seenReferences, all, tasks, skipped,
                   rootPromise, status, result, error, errLog, readLog, call>>

NextTest == GetTestDependencies \/ TestReadCompletes

SpecTest == InitTest /\ [][NextTest]_vars

-----------------------------------------------------------------------------
(* What the claims speak of, defined from the package and not from the walk *)

Settled(t) == t.state \in {"resolved", "rejected"}

\* the call was made and no read is awaited any more
Quiescent == status # "init" /\ \A i \in 1..Len(tasks) : ~Reading(tasks[i])

\* occurrences of x in a sequence
Count(seq, x) == Cardinality({i \in 1..Len(seq) : seq[i] = x})

\* the relative imports of a file: the import texts that start with "."
RelativeImports(src) ==
    LET IsRelative(t) == StartsWith(t, <<DOT>>)
    IN  Range(SelectSeq(imports(src.statements).texts, IsRelative))

\* a reference text of file f, joined with f's directory and normalized
Joined(f, text) == PathNormalize(joinPaths(PathDirname(f), text))

\* the file a <reference path> of f names: the text, read verbatim
PathTarget(f, text) == Joined(f, text)

\* the file a relative import of f names: <name>.d.ts, else <name>/index.d.ts
ImportTarget(files, f, text) ==
    IF Joined(f, text) \o DTS \in DOMAIN files THEN Joined(f, text) \o DTS
    ELSE PathNormalize(joinPaths(Joined(f, text), INDEX_D_TS))

\* the files the references of f lead to
Targets(files, f) ==
    {PathTarget(f, files[f].referencedFiles[i]) : i \in 1..Len(files[f].referencedFiles)}
    \cup {ImportTarget(files, f, t) : t \in RelativeImports(files[f])}

\* the reference texts of f that leave the package root
EscapingReferences(files, f) ==
    {t \in Range(files[f].referencedFiles) \cup RelativeImports(files[f]) :
        StartsWith(Joined(f, t), PARENT)}

RECURSIVE ReachableFrom(_, _)
\* the files reachable from the files in S by following references transitively
ReachableFrom(files, S) ==
    LET more == S \cup UNION {Targets(files, f) : f \in S \cap DOMAIN files}
    IN  IF more = S THEN S ELSE ReachableFrom(files, more)

ReachableFiles == ReachableFrom(fs, Range(allEntryFilenames))

\* the reachable files that lie on a cycle of references
CycleFiles ==
    {f \in ReachableFiles \cap DOMAIN fs : f \in ReachableFrom(fs, Targets(fs, f))}

\* every file is readable, no reference escapes the package root, no cycle
WellFormedPackage ==
    /\ ReachableFiles \subseteq DOMAIN fs
    /\ \A f \in ReachableFiles : EscapingReferences(fs, f) = {}
    /\ \A f \in Range(allEntryFilenames) : ~StartsWith(PathNormalize(f), PARENT)
    /\ CycleFiles = {}

-----------------------------------------------------------------------------
(* C1 *)

\* C1, as claimed: for a package whose files are all readable and whose references
\* neither form a cycle nor escape, the walk ends in success and the keys of the map
\* are exactly the reachable files, each once.
C1_KeysAreTheReachableFiles ==
    (Quiescent /\ WellFormedPackage) =>
        /\ rootPromise = "resolved"
        /\ Range(all) = ReachableFiles
        /\ \A f \in Range(all) : Count(all, f) = 1

-----------------------------------------------------------------------------
(* C2 *)

RECURSIVE RunInOrder(_, _)
\* the walk with the reads completing in the order in which they were issued
RunInOrder(w, files) ==
    LET pending == {i \in 1..Len(w.tasks) : Reading(w.tasks[i])}
    IN  IF pending = {} THEN w
        ELSE LET i == CHOOSE i \in pending : \A j \in pending : i <= j
                 w1 == AfterRead(w, i, files)
             IN  RunInOrder([w1 EXCEPT !.tasks = Settle(w1.tasks, Len(w1.tasks))], files)

InOrderOutcome ==
    LET w0 == [seen |-> {}, all |-> <<>>, tasks |-> <<>>, skipped |-> <<>>,
               readLog |-> <<>>, errs |-> <<>>]
        w == RunInOrder(RecurAll(w0, 0, TSCONFIG,
                                 [i \in 1..Len(allEntryFilenames) |->
                                     [exact |-> TRUE, text |-> allEntryFilenames[i]]]), fs)
    IN  [root |-> PromiseAll({w.tasks[j].state : j \in Children(w.tasks, 0)}),
         files |-> Range(w.all)]

\* C2, as claimed: whatever the order in which the reads complete, the walk ends as it
\* ends when they complete in the order of issue: the same success or failure, and on
\* success the same set of files.
C2_OutcomeIsOrderIndependent ==
    Quiescent =>
        /\ rootPromise = InOrderOutcome.root
        /\ rootPromise = "resolved" => Range(all) = InOrderOutcome.files

-----------------------------------------------------------------------------
(* C3 *)

\* every reference text the walk can meet
AllTexts ==
    Range(allEntryFilenames)
    \cup UNION {{Joined(f, t) : t \in Range(fs[f].referencedFiles) \cup RelativeImports(fs[f])} :
                   f \in DOMAIN fs}

ReadsLeft(t) == CASE t.state = "readDts" -> 2
                  [] t.state \in {"readExact", "readIndex"} -> 1
                  [] OTHER -> 0

RECURSIVE SumReadsLeft(_)
SumReadsLeft(ts) == IF ts = <<>> THEN 0 ELSE ReadsLeft(Head(ts)) + SumReadsLeft(Tail(ts))

\* a bound on the steps that are left: a text not yet seen costs at most three (the
\* step that meets it and two reads), a task the reads it may still make
StepsLeft(seen, ts, st) ==
    3 * Cardinality(AllTexts \ seen) + SumReadsLeft(ts) + (IF st = "init" THEN 1 ELSE 0)

\* C3, termination: every step lowers StepsLeft, which is never negative, so that no
\* execution, cyclic references or not, takes more than StepsLeft steps; and the
\* guard on the number of tasks never holds a read back
C3_EveryStepProgresses ==
    [][/\ StepsLeft(seenReferences', tasks', status') < StepsLeft(seenReferences, tasks, status)
       /\ seenReferences' \subseteq AllTexts
       /\ Len(tasks') < MaxTasks]_vars

\* C3, as claimed of the result: a successful execution returns each file of a
\* reference cycle exactly once in declFiles.
C3_CycleFilesExactlyOnce ==
    status = "returned" => \A f \in CycleFiles : Count(result.declFiles, f) = 1

\* C3, the part that holds of the result: no file is returned twice
C3_NoFileTwice ==
    status = "returned" => \A f \in Range(result.declFiles) : Count(result.declFiles, f) = 1

-----------------------------------------------------------------------------
(* C4 *)

\* C4, as claimed: no returned declFiles path normalizes to start with "..", entry
\* filenames included; and a file with an escaping reference makes the call fail, the
\* escaping target never being read for a reference.
C4_NoPathEscapes ==
    /\ status = "returned" =>
          \A f \in Range(result.declFiles) : ~StartsWith(PathNormalize(f), PARENT)
    /\ \A f \in Range(all) : EscapingReferences(fs, f) # {} => status = "failed"
    /\ \A k \in 1..Len(readLog) :
          StartsWith(readLog[k].text, PARENT) => readLog[k].text \in Range(allEntryFilenames)

-----------------------------------------------------------------------------
(* C5 *)

ReadErrors == {k \in 1..Len(errLog) : errLog[k].kind = "ReadError"}

\* C5: once the read of an exact reference has failed, or both reads of a module-style
\* reference, getModuleInfo has failed and holds no result.
C5_ReadFailureAborts ==
    ReadErrors # {} => status = "failed" /\ result = NoResult

\* a failed exact read and a failed module-style resolution, after files were stored
C5_Witness ==
    /\ status = "failed"
    /\ all # <<>>
    /\ \E i, j \in 1..Len(tasks) :
          /\ tasks[i].state = "rejected" /\ tasks[i].exact /\ tasks[i].err.kind = "ReadError"
          /\ tasks[j].state = "rejected" /\ ~tasks[j].exact /\ tasks[j].err.kind = "ReadError"
          /\ tasks[i].err = Err("ReadError", tasks[i].referencedFrom, tasks[i].text)
          /\ tasks[j].err = Err("ReadError", tasks[j].referencedFrom, tasks[j].text)

-----------------------------------------------------------------------------
(* C6 *)

RECURSIVE ImportTargets(_)
\* the import targets found in a file: the string-literal targets of its import and
\* export declarations and of its import = require(), those inside the blocks of
\* string-named ambient modules included
ImportTargets(statements) ==
    UNION { LET st == statements[i]
            IN  CASE st.kind \in {"ImportDeclaration", "ExportDeclaration", "ImportEqualsDeclaration"}
                     /\ st.specKind = "StringLiteral" -> {st.spec}
                  [] st.kind = "ModuleDeclaration" /\ st.nameKind = "StringLiteral"
                     /\ st.bodyKind = "ModuleBlock" -> ImportTargets(st.body)
                  [] OTHER -> {}
            : i \in 1..Len(statements) }

NonRelative(t) == t = <<>> \/ t[1] # DOT

\* C6: the dependencies returned never hold packageName, and hold the root name of
\* every non-relative import and every type-reference target of every returned file
\* that is not packageName.
C6_SelfIsNeverADependency ==
    status = "returned" =>
        /\ packageName \notin result.dependencies
        /\ \A f \in Range(result.declFiles) :
              /\ \A t \in ImportTargets(ReadFile(fs, f).statements) :
                    (NonRelative(t) /\ rootName(t) # packageName)
                       => rootName(t) \in result.dependencies
              /\ \A r \in Range(ReadFile(fs, f).typeReferenceDirectives) :
                    r # packageName => r \in result.dependencies

\* a file that imports from its own package and names it in a type reference is
\* classified without an error, and the other package it names is a dependency
C6_Witness ==
    /\ status = "returned"
    /\ fs[A_DTS].typeReferenceDirectives = <<Q, P>>
    /\ fs[A_DTS].statements = <<ImportDeclaration(<<"p", "/", "q">>), ExportFrom(R)>>
    /\ result.dependencies = {Q, R}

-----------------------------------------------------------------------------
(* C7 *)

\* a top-level statement that is neither an import declaration, an import-equals
\* declaration nor an ambient module declaration keyed by a string literal
RealStatement(st) ==
    /\ st.kind \notin {"ImportDeclaration", "ImportEqualsDeclaration"}
    /\ ~(st.kind = "ModuleDeclaration" /\ st.nameKind = "StringLiteral")

\* C7: an external-module file that is returned pushed its derived module name onto
\* declaredModules (once) if it has such a statement, and pushed nothing if not.
C7_DeclaredIffExportsSomething ==
    status = "returned" =>
        \A f \in Range(result.declFiles) :
            LET src == ReadFile(fs, f)
                pushed == {i \in 1..Len(result.declaredBy) : result.declaredBy[i] = f}
            IN  isExternalModule(src) =>
                  IF \E i \in 1..Len(src.statements) : RealStatement(src.statements[i])
                  THEN /\ Cardinality(pushed) = 1
                       /\ \A i \in pushed :
                             result.declaredModules[i] = properModuleName(packageName, f).value
                  ELSE pushed = {}

\* a.d.ts holds only an import of "./b": it declares no module, while b.d.ts, which
\* exports an interface, declares p/b
C7_Witness ==
    /\ status = "returned"
    /\ fs[A_DTS].statements = <<ImportDeclaration(<<".", "/", "b">>)>>
    /\ result.declFiles = <<A_DTS, B_DTS>>
    /\ result.declaredBy = <<B_DTS>>
    /\ result.declaredModules = <<<<"p", "/", "b">>>>

-----------------------------------------------------------------------------
(* C8 *)

ValueKinds == {"VariableStatement", "ClassDeclaration", "FunctionDeclaration", "EnumDeclaration"}

RECURSIVE ValueNamespace(_)
\* the namespace, its dotted bodies unwrapped, holds in its block a variable statement,
\* a class, function or enum declaration, or a namespace that is a value namespace
ValueNamespace(ns) ==
    CASE ns.bodyKind = "ModuleDeclaration" -> ValueNamespace(ns.body[1])
      [] ns.bodyKind = "ModuleBlock" ->
            \E i \in 1..Len(ns.body) :
                \/ ns.body[i].kind \in ValueKinds
                \/ ns.body[i].kind = "ModuleDeclaration" /\ ValueNamespace(ns.body[i])
      [] OTHER -> FALSE

\* C8: in a returned global script, the statement of a top-level identifier-named
\* namespace added its name to globals if and only if it is a value namespace.
C8_GlobalIffValueNamespace ==
    status = "returned" =>
        \A f \in Range(result.declFiles) :
            LET src == ReadFile(fs, f)
            IN  ~isExternalModule(src) =>
                  \A i \in 1..Len(src.statements) :
                      LET ns == src.statements[i]
                          added == [file |-> f, index |-> i, name |-> ns.name]
                                      \in result.globalsBy
                      IN  (ns.kind = "ModuleDeclaration" /\ ns.nameKind = "Identifier") =>
                             /\ added <=> ValueNamespace(ns)
                             /\ added => ns.name \in Range(result.globals)

\* a namespace of an interface and a namespace M of a class is a global; so is a
\* dotted one
C8_Witness ==
    /\ status = "returned"
    /\ fs[A_DTS].statements =
          <<Namespace(<<"N">>, <<Named("InterfaceDeclaration", <<"i">>),
                                 Namespace(<<"M">>, <<Named("ClassDeclaration", <<"c">>)>>)>>)>>
    /\ result.globals = <<<<"N">>>>

\* a namespace that holds only an interface, a type alias or an import-equals is not
C8_WitnessTypeOnly ==
    /\ status = "returned"
    /\ fs[A_DTS].statements =
          <<Namespace(<<"N">>, <<Named("InterfaceDeclaration", <<"i">>), ImportAlias>>)>>
    /\ result.globals = <<>>

-----------------------------------------------------------------------------
(* C9 *)

RecognisedKinds ==
    ValueKinds \cup {"ModuleDeclaration", "InterfaceDeclaration", "TypeAliasDeclaration",
                     "ImportEqualsDeclaration"}

RECURSIVE HoldsUnrecognised(_)
\* the namespace has no body, or holds, at any depth and position, a statement of an
\* unrecognised kind or a namespace without a body
HoldsUnrecognised(ns) ==
    CASE ns.bodyKind = "none" -> TRUE
      [] ns.bodyKind = "ModuleDeclaration" -> HoldsUnrecognised(ns.body[1])
      [] OTHER ->
            \E i \in 1..Len(ns.body) :
                \/ ns.body[i].kind \notin RecognisedKinds
                \/ ns.body[i].kind = "ModuleDeclaration" /\ HoldsUnrecognised(ns.body[i])

\* C9, as claimed: when the walk has succeeded and a global script of the package holds
\* a top-level identifier-named namespace with such a statement, getModuleInfo fails.
C9_UnrecognisedAlwaysFails ==
    (rootPromise = "resolved" /\
     \E f \in Range(all) :
        /\ ~isExternalModule(ReadFile(fs, f))
        /\ \E i \in 1..Len(ReadFile(fs, f).statements) :
              /\ ReadFile(fs, f).statements[i].kind = "ModuleDeclaration"
              /\ ReadFile(fs, f).statements[i].nameKind = "Identifier"
              /\ HoldsUnrecognised(ReadFile(fs, f).statements[i]))
    => status = "failed"

-----------------------------------------------------------------------------
(* C10 *)

\* the name the claim gives: the parent directory of an index.d.ts, else the file name
\* without .d.ts, and the package name when that is "."
ClaimedModuleName(pkg, f) ==
    LET name == IF PathBasename(f) = INDEX_D_TS THEN PathDirname(f)
                ELSE Slice(f, 0, Len(f) - Len(DTS))
    IN  IF name = CUR THEN pkg ELSE name

NameUnderPackage(pkg, f) ==
    LET segs == Split(f)
        base == segs[Len(segs)]
        dirs == SubSeq(segs, 1, Len(segs) - 1)
    IN  IF base = INDEX_D_TS THEN JoinSegs(<<pkg>> \o dirs)
        ELSE JoinSegs(<<pkg>> \o dirs \o <<Slice(base, 0, Len(base) - Len(DTS))>>)

-----------------------------------------------------------------------------
(* C11 *)

SCOPE_PKG_SUB == <<"@", "s", "c", "o", "p", "e", "/", "p", "k", "g", "/", "s", "u", "b">>
SCOPE_PKG == <<"@", "s", "c", "o", "p", "e", "/", "p", "k", "g">>
FOO_BAR_BAZ == <<"f", "o", "o", "/", "b", "a", "r", "/", "b", "a", "z">>

\* the root of s by its "/"-separated segments: the first one, or the first two of a
\* name that begins with "@"; s itself when it has no more segments than that
RootBySegments(s) ==
    LET segs == Split(s)
        n == IF s # <<>> /\ s[1] = "@" THEN 2 ELSE 1
    IN  IF Len(segs) <= n THEN s ELSE JoinSegs(SubSeq(segs, 1, n))

\* C11: rootName(s) is the prefix of s before its first "/", before its second "/"
\* when s begins with "@", and s when that separator does not occur; so
\* "@scope/pkg/sub" gives "@scope/pkg", "foo/bar/baz" gives "foo", "foo" gives "foo".
C11_RootNameIsThePrefix ==
    /\ call.fn = "rootName" =>
          /\ call.err = NoError
          /\ call.value = RootBySegments(call.args[1])
    /\ rootName(SCOPE_PKG_SUB) = SCOPE_PKG
    /\ rootName(FOO_BAR_BAZ) = FOO
    /\ rootName(FOO) = FOO

\* a scoped name of three segments was given and its first two came back
C11_Witness ==
    /\ call.fn = "rootName"
    /\ call.args = <<<<"@">> \o FOO \o <<SLASH>> \o BAR \o <<SLASH>> \o FOO>>
    /\ call.value = <<"@">> \o FOO \o <<SLASH>> \o BAR

-----------------------------------------------------------------------------
(* C12 *)

\* the test files the call was given that exist
GivenTestFiles == {f \in Range(testFiles) : Readable(fs, f)}

UnreadableTestFiles == Range(testFiles) \ GivenTestFiles

\* the file holds a <reference path>
HasPathReference(src) == src.referencedFiles # <<>>

\* the file holds a type reference to a known dependency or to the package itself
HasRedundantTypeReference(src) ==
    \E i \in 1..Len(src.typeReferenceDirectives) :
        src.typeReferenceDirectives[i] \in knownDependencies \cup {pkgName}

RECURSIVE HasUnreadableImport(_)
\* among the statements, or in the block of a string-named ambient module among them:
\* an import = require() of something that is no string literal, or a string-named
\* ambient module without a body
HasUnreadableImport(statements) ==
    \E i \in 1..Len(statements) :
        LET st == statements[i]
        IN  \/ st.kind = "ImportEqualsDeclaration" /\ st.specKind = "Expression"
            \/ /\ st.kind = "ModuleDeclaration"
               /\ st.nameKind = "StringLiteral"
               /\ \/ st.bodyKind = "none"
                  \/ st.bodyKind = "ModuleBlock" /\ HasUnreadableImport(st.body)

TestDone == testStatus \in {"returned", "failed"}

\* C12, as claimed: the call fails when a test file holds a path reference or a type
\* reference to a known dependency or to the package, and apart from failed reads in
\* no other case.
C12_FailsOnlyOnReferences ==
    TestDone =>
        (testStatus = "failed" <=>
            \/ UnreadableTestFiles # {}
            \/ \E f \in GivenTestFiles :
                  HasPathReference(fs[f]) \/ HasRedundantTypeReference(fs[f]))

\* C12, amended: the call fails when a test file cannot be read, holds a path
\* reference (whatever else it holds), holds a type reference to a known dependency or
\* to the package, or holds an import that imports() throws on (an import = require()
\* of a non-literal, a string-named ambient module without a body); in no other case.
C12_FailsOnReferencesAndBadImports ==
    TestDone =>
        (testStatus = "failed" <=>
            \/ UnreadableTestFiles # {}
            \/ \E f \in GivenTestFiles :
                  \/ HasPathReference(fs[f])
                  \/ HasRedundantTypeReference(fs[f])
                  \/ HasUnreadableImport(fs[f].statements))

\* the second test file failed on its path reference, type references and statements
\* notwithstanding
C12_Witness ==
    /\ testStatus = "failed"
    /\ testIndex = 2
    /\ testError.kind = "PathReferenceInTest"
    /\ fs[testFiles[2]].statements # <<>>
    /\ fs[testFiles[2]].typeReferenceDirectives # <<>>

-----------------------------------------------------------------------------
(* C13 *)

\* the type-reference targets of the test files
TestTypeReferenceTargets ==
    UNION {Range(fs[f].typeReferenceDirectives) : f \in GivenTestFiles}

\* the import targets of the test files
TestImportTargets == UNION {ImportTargets(fs[f].statements) : f \in GivenTestFiles}

\* C13: a returned set is the type-reference targets of the test files and their
\* non-relative import targets that are neither known dependencies nor the package
\* name; it is disjoint from the known dependencies and without the package name, and
\* empty for one test file without type references whose non-relative imports are all
\* known.
C13_ResultIsTheNewDependencies ==
    testStatus = "returned" =>
        /\ testDependencies =
              TestTypeReferenceTargets
              \cup {t \in TestImportTargets :
                       NonRelative(t) /\ t \notin knownDependencies /\ t # pkgName}
        /\ testDependencies \cap knownDependencies = {}
        /\ pkgName \notin testDependencies
        /\ (/\ Len(testFiles) = 1
            /\ fs[testFiles[1]].typeReferenceDirectives = <<>>
            /\ \A t \in ImportTargets(fs[testFiles[1]].statements) :
                  NonRelative(t) => t \in knownDependencies)
           => testDependencies = {}

\* two test files were read: imports of a known dependency and of the package were left
\* out, a type reference and an import of something new were taken
C13_Witness ==
    /\ testStatus = "returned"
    /\ Len(testFiles) = 2
    /\ knownDependencies = {Q}
    /\ {Q, P} \subseteq TestImportTargets
    /\ testDependencies = {R, Q_X, T}

-----------------------------------------------------------------------------
(* C14 *)

HasBackslash(s) == \E i \in 1..Len(s) : s[i] = BACKSLASH

\* the names a file makes getModuleInfo resolve: its <reference path> targets and its
\* relative import targets
ResolvedNames(src) ==
    Range(src.referencedFiles) \cup {t \in ImportTargets(src.statements) : ~NonRelative(t)}

\* the module names a global script declares: those of its string-named ambient modules
DeclaredNames(src) ==
    IF isExternalModule(src) THEN {}
    ELSE {src.statements[i].name : i \in {j \in 1..Len(src.statements) :
              src.statements[j].kind = "ModuleDeclaration"
              /\ src.statements[j].nameKind = "StringLiteral"}}

\* C14, as claimed: getModuleInfo returns only if no entry filename, no reference
\* target of a resolved file and no module name declared holds a backslash, and then
\* neither declFiles nor declaredModules holds one.
C14_NoBackslashOnSuccess ==
    status = "returned" =>
        /\ \A f \in Range(allEntryFilenames) : ~HasBackslash(f)
        /\ \A f \in Range(result.declFiles) :
              /\ ~HasBackslash(f)
              /\ \A t \in ResolvedNames(fs[f]) \cup DeclaredNames(fs[f]) : ~HasBackslash(t)
        /\ \A m \in Range(result.declaredModules) : ~HasBackslash(m)

-----------------------------------------------------------------------------
(* C15 *)

\* the reads issued on behalf of a reference text, in order
ReadsFor(text) ==
    LET IsFor(r) == r.text = text IN SelectSeq(readLog, IsFor)

\* C15: no two calls of recur went past the seen check with the same reference text;
\* a text is in the seen set as soon as its call awaits a read; and the reads issued
\* for a text are its one resolution: the file itself, or <text>.d.ts and then at most
\* the index file.
C15_EachTextResolvedOnce ==
    /\ \A i, j \in 1..Len(tasks) : tasks[i].text = tasks[j].text => i = j
    /\ \A i \in 1..Len(tasks) :
          /\ tasks[i].text \in seenReferences
          /\ LET reads == ReadsFor(tasks[i].text)
                 ref == [exact |-> tasks[i].exact, text |-> tasks[i].text]
             IN  /\ Len(reads) \in (IF tasks[i].exact THEN {1} ELSE {1, 2})
                 /\ reads[1].file = FirstRead(ref)
                 /\ Len(reads) = 2 => reads[2].file = IndexFile(tasks[i].text)
    /\ \A k \in 1..Len(readLog) : \E i \in 1..Len(tasks) : tasks[i].text = readLog[k].text

\* a second branch met a text while the read of the branch that owns it was in flight,
\* and issued no read
C15_Witness ==
    \E k \in 1..Len(skipped), i \in 1..Len(tasks) :
        /\ skipped[k].text = tasks[i].text
        /\ skipped[k].referencedFrom # tasks[i].referencedFrom
        /\ Reading(tasks[i])
        /\ Len(ReadsFor(tasks[i].text)) = 1

-----------------------------------------------------------------------------
(* C16 *)

\* C16: once the promise of allReferencedFiles is resolved, every call of recur has
\* resolved (none awaits a read or its children), and every text of the seen set is
\* owned by a call whose resolved file is in the map.
C16_NothingPendingOnSuccess ==
    rootPromise = "resolved" =>
        /\ \A i \in 1..Len(tasks) :
              /\ tasks[i].state = "resolved"
              /\ tasks[i].resolvedFilename \in Range(all)
        /\ \A t \in seenReferences : \E i \in 1..Len(tasks) : tasks[i].text = t
        /\ status = "returned" => Range(result.declFiles) = Range(all)

\* success after a branch skipped a text owned by a call made from another file, whose
\* resolution took two reads
C16_Witness ==
    /\ rootPromise = "resolved"
    /\ \E k \in 1..Len(skipped), i \in 1..Len(tasks) :
          /\ skipped[k].text = tasks[i].text
          /\ skipped[k].referencedFrom # tasks[i].referencedFrom
          /\ Len(ReadsFor(tasks[i].text)) = 2
          /\ tasks[i].parent # 0

-----------------------------------------------------------------------------
(* C17 *)

\* <t>.d.ts
DirectFile(t) == t \o DTS

\* <t without a trailing slash>/index.d.ts
FallbackFile(t) ==
    (IF t # <<>> /\ t[Len(t)] = SLASH THEN SubSeq(t, 1, Len(t) - 1) ELSE t)
    \o <<SLASH>> \o INDEX_D_TS

\* the resolution of a module-style reference to `t`, its fallback file being stored
\* under the name stored(t)
ResolvesModuleStyle(i, stored(_)) ==
    LET t == tasks[i].text
        reads == ReadsFor(t)
    IN  /\ reads[1].file = DirectFile(t)
        /\ Len(reads) = 2 => reads[2].file = FallbackFile(t) /\ ~Readable(fs, DirectFile(t))
        /\ Readable(fs, DirectFile(t)) /\ ~Reading(tasks[i])
              => tasks[i].resolvedFilename = DirectFile(t) /\ Len(reads) = 1
        /\ ~Readable(fs, DirectFile(t)) /\ Readable(fs, FallbackFile(t)) /\ ~Reading(tasks[i])
              => tasks[i].resolvedFilename = stored(t) /\ tasks[i].resolvedFilename \in Range(all)
        /\ ~Readable(fs, DirectFile(t)) /\ ~Readable(fs, FallbackFile(t)) /\ ~Reading(tasks[i])
              => /\ tasks[i].state = "rejected"
                 /\ tasks[i].err = Err("ReadError", tasks[i].referencedFrom, t)
                 /\ status = "failed"

\* the fallback file under its own name, but index.d.ts for ./index.d.ts
StoredFallback(t) ==
    IF FallbackFile(t) = DOT_SLASH_INDEX_D_TS THEN INDEX_D_TS ELSE FallbackFile(t)

\* C17, as claimed: a module-style reference t resolves to t.d.ts when that can be
\* read, whether or not t/index.d.ts exists; otherwise <t without trailing
\* slash>/index.d.ts is read and is the resolved filename; when neither can be read,
\* getModuleInfo fails.
C17_DirectThenIndex ==
    \A i \in 1..Len(tasks) : ~tasks[i].exact => ResolvesModuleStyle(i, FallbackFile)

\* C17, amended: as claimed, except that the fallback file ./index.d.ts (of the
\* reference text "." or "./") is stored under the resolved filename index.d.ts.
C17_DirectThenIndexNormalized ==
    \A i \in 1..Len(tasks) : ~tasks[i].exact => ResolvesModuleStyle(i, StoredFallback)

\* "./s" resolved to s.d.ts although s/index.d.ts exists, and "./s/" to s/index.d.ts
C17_Witness ==
    /\ S_INDEX \in DOMAIN fs
    /\ \E i, j \in 1..Len(tasks) :
          /\ tasks[i].text = <<"s">> /\ tasks[i].resolvedFilename = S_DTS
          /\ tasks[j].text = <<"s", "/">> /\ tasks[j].resolvedFilename = S_INDEX

-----------------------------------------------------------------------------
(* C18 *)

\* C18: from the first error on (a failed read, a failed reference check), and
\* whatever fails or completes later, getModuleInfo has failed with the error that
\* occurred first and holds no result.
C18_FirstErrorSurfaces ==
    errLog # <<>> =>
        /\ status = "failed"
        /\ error = errLog[1]
        /\ result = NoResult

\* after the failure, a branch that was in flight failed with another error and a
\* branch stored its file
C18_Witness ==
    /\ status = "failed"
    /\ Len(errLog) >= 2
    /\ errLog[2] # errLog[1]
    /\ error = errLog[1]
    /\ \E i \in 1..Len(tasks) :
          /\ tasks[i].state \in {"join", "resolved"}
          /\ tasks[i].parent # 0

-----------------------------------------------------------------------------
(* C19 *)

\* the names of the namespace-export declarations of a file
NamespaceExports(src) ==
    {src.statements[i].name : i \in {j \in 1..Len(src.statements) :
        src.statements[j].kind = "NamespaceExportDeclaration"}}

\* C19, as claimed: the result's globals hold the name of every namespace-export
\* declaration of every external-module file of the result, whatever else the file
\* holds.
C19_NamespaceExportIsGlobal ==
    status = "returned" =>
        \A f \in Range(result.declFiles) :
            isExternalModule(fs[f]) => NamespaceExports(fs[f]) \subseteq Range(result.globals)

====
